---- MODULE Spec2Model ----
(***************************************************************************)
(* Minification of an AnnData by a trained scvi-tools model, as driven by  *)
(* the notebook minification.ipynb: the dataset objects the notebook       *)
(* holds (model.adata, bdata), model.minify_adata(), model.save() and      *)
(* Model.load(), with the outputs and the traceback the notebook records.  *)
(*                                                                         *)
(* A matrix is its shape and, for every row, the number of stored          *)
(* elements of that row; every stored count is taken to be 1, so that the  *)
(* per-row sum of the counts is the per-row number of stored elements.     *)
(***************************************************************************)
EXTENDS Integers, Sequences, FiniteSets, TLC

\* ------------------------------------------------------------------ bounds
MaxObs == 2
MaxVars == 3
MaxObjects == 3

\* ---------------------------------------------------------- reserved names
ADATA_MINIFY_TYPE_UNS_KEY == "_scvi_adata_minify_type"
LATENT_POSTERIOR == "latent_posterior_parameters"
X_LATENT_QZM == "X_latent_qzm"
X_LATENT_QZV == "X_latent_qzv"
SCVI_LATENT_QZM == "_scvi_latent_qzm"
SCVI_LATENT_QZV == "_scvi_latent_qzv"
SCVI_OBSERVED_LIB_SIZE == "_scvi_observed_lib_size"
SCVI_UUID_KEY == "_scvi_uuid"
STATE_REGISTRY_KEY == "state_registry"

MinificationFields == {SCVI_LATENT_QZM, SCVI_LATENT_QZV, SCVI_OBSERVED_LIB_SIZE,
                       ADATA_MINIFY_TYPE_UNS_KEY}
BaseFields == {"X", "_scvi_batch", "_scvi_labels",
               "_scvi_extra_categorical_covs", "_scvi_extra_continuous_covs"}

\* The model classes: SCVI inherits from BaseMinifiedModeModelClass, MyModel
\* does not.
ModelClasses == {"SCVI", "MyModel"}
BaseMinifiedModeModelClass == {"SCVI"}

Paths == {"local/hca", "local/hca_minified", "local/mymodel"}
ModelVars == {"model", "loaded_model"}

\* ---------------------------------------------------------------- matrices
RECURSIVE SumSeq(_)
SumSeq(s) == IF s = <<>> THEN 0 ELSE Head(s) + SumSeq(Tail(s))

\* number of stored elements of a sparse matrix
nnz(M) == SumSeq(M.rows)

\* csr_matrix(M.shape): an all-empty sparse matrix of the shape of M
MutEmptyKeep(M) == M
all_zeros(M) == [shape |-> M.shape, rows |-> [i \in 1..M.shape[1] |-> 0]]

\* counts.sum(axis=1)
RowSums(M) == M.rows

\* ---------------------------------------------------------------- datasets
n_obs(a) == a.X.shape[1]
n_vars(a) == a.X.shape[2]

NoRaw == {}

BaseUns == [k \in {"_scvi_manager_uuid", SCVI_UUID_KEY, "log1p"} |->
              IF k = "_scvi_manager_uuid" THEN "manager-1"
              ELSE IF k = SCVI_UUID_KEY THEN "uuid-1" ELSE "base"]

\* the dataset of cell 285ab758 after setup_anndata: X, layers["counts"] with
\* the sparsity pattern of X, optionally a raw snapshot taken before the
\* genes were subset
MakeAdata(n, v, r, withRaw) ==
  [X      |-> [shape |-> <<n, v>>, rows |-> r],
   layers |-> [l \in {"counts"} |-> [shape |-> <<n, v>>, rows |-> r]],
   raw    |-> IF withRaw THEN {[shape |-> <<n, v + 1>>, rows |-> r]} ELSE NoRaw,
   obs    |-> [c \in {"cell_source", "_scvi_batch", "_scvi_labels"} |-> [i \in 1..n |-> 0]],
   var    |-> {"highly_variable"},
   uns    |-> BaseUns,
   obsm   |-> [k \in {"_scvi_extra_categorical_covs", "_scvi_extra_continuous_covs"} |->
                 [n_rows |-> n, data |-> k]]]

\* the data has MaxObs rows, and highly_variable_genes(n_top_genes=...,
\* subset=True) leaves MaxVars columns; the first k rows have a stored
\* element in every column and the other rows have none
InitAdatas ==
  { MakeAdata(MaxObs, MaxVars, [i \in 1..MaxObs |-> IF i <= k THEN MaxVars ELSE 0], w) :
      k \in 0..MaxObs, w \in BOOLEAN }

\* f with key k set to value x (dict assignment)
Put(f, k, x) == [j \in DOMAIN f \cup {k} |-> IF j = k THEN x ELSE f[j]]

\* ------------------------------------------------------------------- state
VARIABLES
  heap,        \* the AnnData objects, by identity (index)
  models,      \* the notebook's model variables: model, loaded_model
  bdata,       \* the notebook's saved reference to model.adata
  disk,        \* saved models: dir_path -> registry, class and saved adata
  next_uuid,   \* number of uuids handed out
  managers,    \* the registered AnnDataManagers: dataset -> the call that made it
  raised,      \* the exception the last call raised, if any
  last         \* the last call: operation, arguments, result, input before, value

vars == <<heap, models, bdata, disk, next_uuid, managers, raised, last>>

NoError == [type |-> "None", msg |-> ""]

\* ------------------------------------------------- tagging and classifying
\* adata.uns.get(_ADATA_MINIFY_TYPE_UNS_KEY, None)
Mut_get_adata_minify_type(adata) == "None"
_get_adata_minify_type(adata) ==
  IF ADATA_MINIFY_TYPE_UNS_KEY \in DOMAIN adata.uns
  THEN adata.uns[ADATA_MINIFY_TYPE_UNS_KEY] ELSE "None"

\* scvi.data._utils._is_minified
Mut_is_minified(adata) == SumSeq(adata.X.rows) = 0
_is_minified(adata) == _get_adata_minify_type(adata) # "None"


\* ------------------------------------------------------------ error names
\* the notebook's KeyError is the RegistryKeyError of the error taxonomy
RegistryKeyError == "KeyError"
UnsupportedOperation == "UnsupportedOperation"
AlreadyMinified == "AlreadyMinified"
DimensionMismatch == "DimensionMismatch"
UnknownMinificationKind == "UnknownMinificationKind"

\* "The MyModel model currently does not support minified data."
MutUnsupportedMessage(cls) == "The model currently does not support minified data."
UnsupportedMessage(cls) ==
  "The " \o cls \o " model currently does not support minified data."

\* --------------------------------------------------- minification transform
\* the raw attribute of the minified AnnData: deleted
MutKeepRaw(adata) == adata.raw
del_raw(adata) == NoRaw

\* get_minified_adata_scrna (scvi/model/utils/_minification.py): a new
\* AnnData with X and every layer emptied and raw dropped, obs, var, uns and
\* obsm carried over, and uns tagged with the minification type
MutMinifiedDropsObs(adata, minified_data_type) ==
  [X      |-> all_zeros(adata.X),
   layers |-> [l \in DOMAIN adata.layers |-> all_zeros(adata.layers[l])],
   raw    |-> del_raw(adata),
   obs    |-> [c \in {} |-> <<>>],
   var    |-> adata.var,
   uns    |-> Put(adata.uns, ADATA_MINIFY_TYPE_UNS_KEY, minified_data_type),
   obsm   |-> adata.obsm]
get_minified_adata_scrna(adata, minified_data_type) ==
  [X      |-> all_zeros(adata.X),
   layers |-> [l \in DOMAIN adata.layers |-> all_zeros(adata.layers[l])],
   raw    |-> del_raw(adata),
   obs    |-> adata.obs,
   var    |-> adata.var,
   uns    |-> Put(adata.uns, ADATA_MINIFY_TYPE_UNS_KEY, minified_data_type),
   obsm   |-> adata.obsm]

\* the statistics minify_adata adds to the minified AnnData: the latent
\* posterior parameters under the internal names, the observed library size
\* of the registered counts, and the uuid of the new registration
MutSwapLatent(minified_adata, adata, uuid) ==
  [minified_adata EXCEPT
     !.obsm = Put(Put(@, SCVI_LATENT_QZM, adata.obsm[X_LATENT_QZV]),
                  SCVI_LATENT_QZV, adata.obsm[X_LATENT_QZM]),
     !.obs  = Put(@, SCVI_OBSERVED_LIB_SIZE, RowSums(adata.layers["counts"])),
     !.uns  = Put(@, SCVI_UUID_KEY, "uuid-" \o ToString(uuid))]
MutNoLibSize(minified_adata, adata, uuid) ==
  [minified_adata EXCEPT
     !.obsm = Put(Put(@, SCVI_LATENT_QZM, adata.obsm[X_LATENT_QZM]),
                  SCVI_LATENT_QZV, adata.obsm[X_LATENT_QZV]),
     !.uns  = Put(@, SCVI_UUID_KEY, "uuid-" \o ToString(uuid))]
add_minified_statistics(minified_adata, adata, uuid) ==
  [minified_adata EXCEPT
     !.obsm = Put(Put(@, SCVI_LATENT_QZM, adata.obsm[X_LATENT_QZM]),
                  SCVI_LATENT_QZV, adata.obsm[X_LATENT_QZV]),
     !.obs  = Put(@, SCVI_OBSERVED_LIB_SIZE, RowSums(adata.layers["counts"])),
     !.uns  = Put(@, SCVI_UUID_KEY, "uuid-" \o ToString(uuid))]

\* the minified AnnData is a new object: the heap after the transform and
\* the identity of its result
MutMinifyInPlace(h, id, uuid) ==
  [heap   |-> [h EXCEPT ![id] =
                 add_minified_statistics(
                   get_minified_adata_scrna(h[id], LATENT_POSTERIOR), h[id], uuid)],
   result |-> id]
MutMinifyClearsOriginal(h, id, uuid) ==
  [heap   |-> Append([h EXCEPT ![id].X = all_zeros(@)],
                     add_minified_statistics(
                       get_minified_adata_scrna(h[id], LATENT_POSTERIOR), h[id], uuid)),
   result |-> Len(h) + 1]
minify(h, id, uuid) ==
  [heap   |-> Append(h, add_minified_statistics(
                          get_minified_adata_scrna(h[id], LATENT_POSTERIOR), h[id], uuid)),
   result |-> Len(h) + 1]

\* a model class has minify_adata iff it inherits from
\* BaseMinifiedModeModelClass
MutSupportsAll(cls) == TRUE
supports_minification(cls) == cls \in BaseMinifiedModeModelClass

\* re-minifying is rejected
MutNeverAlreadyMinified(adata) == FALSE
already_minified(adata) == _is_minified(adata)

\* the statistics agree with the dataset on the number of rows
MutRowsAgreeMeanOnly(adata) == adata.obsm[X_LATENT_QZM].n_rows = n_obs(adata)
rows_agree(adata) ==
  /\ adata.obsm[X_LATENT_QZM].n_rows = n_obs(adata)
  /\ adata.obsm[X_LATENT_QZV].n_rows = n_obs(adata)

has_latent(adata) == {X_LATENT_QZM, X_LATENT_QZV} \subseteq DOMAIN adata.obsm

\* the fields setup_anndata registers for a dataset
MutFieldsIgnoreMinified(cls, adata) == BaseFields
_get_fields(cls, adata) ==
  IF supports_minification(cls) /\ _get_adata_minify_type(adata) # "None"
  THEN BaseFields \cup MinificationFields
  ELSE BaseFields

\* ------------------------------------------------------------------ Init
SourceRegistry(cls, adata) ==
  [model_name |-> cls, field_registries |-> _get_fields(cls, adata)]

\* the notebook after cell 285ab758, for the dataset a
InitWith(a) ==
    /\ heap = <<a>>
    /\ models = [m \in ModelVars |->
                   IF m = "model"
                   THEN [cls |-> "SCVI", adata |-> 1,
                         minified_data_type |-> _get_adata_minify_type(a),
                         registry |-> SourceRegistry("SCVI", a)]
                   ELSE [cls |-> "None", adata |-> 0, minified_data_type |-> "None",
                         registry |-> SourceRegistry("None", a)]]
    /\ bdata = 0
    /\ disk = [p \in {"local/hca", "local/mymodel"} |->
                 IF p = "local/hca"
                 THEN [registry |-> SourceRegistry("SCVI", a), adata |-> a]
                 ELSE [registry |-> SourceRegistry("MyModel", a), adata |-> a]]
    /\ next_uuid = 1
    /\ managers = [id \in {1} |-> "setup_anndata"]
    /\ raised = NoError
    /\ last = [op |-> "init", m |-> "model", path |-> "", arg |-> 0, result |-> 0,
               pre |-> a, ref |-> 1, value |-> "None"]

Init == \E a \in InitAdatas : InitWith(a)

\* the record of a call: its arguments and result, the dataset it was given
\* as it was before the call, and the reference the model variable held
CallV(op, m, path, arg, result, pre, value) ==
  [op |-> op, m |-> m, path |-> path, arg |-> arg, result |-> result,
   pre |-> pre, ref |-> models[m].adata, value |-> value]

Call(op, m, path, arg, result, pre) == CallV(op, m, path, arg, result, pre, "None")

\* SCVI.setup_anndata: register_fields, then cls.register_manager; a manager
\* whose register_fields raised is never registered
MutRegisterBeforeValidation(mgrs, id, source, err) == Put(mgrs, id, source)
register_manager(mgrs, id, source, err) ==
  IF err.type = "None" THEN Put(mgrs, id, source) ELSE mgrs

\* ---------------------------------------------------------------- actions
\* cell 776e0e84: bdata = model.adata
KeepReference ==
  /\ bdata = 0
  /\ bdata' = models["model"].adata
  /\ raised' = NoError
  /\ last' = Call("bdata", "model", "", models["model"].adata, 0, heap[models["model"].adata])
  /\ UNCHANGED <<heap, models, disk, next_uuid, managers>>

\* cell cd6c5291, lines 1-3: the latent representation of the model's own
\* dataset is stored in its obsm
StoreLatent(m) ==
  LET id == models[m].adata IN
  /\ models[m].cls # "None"
  /\ supports_minification(models[m].cls)
  /\ ~has_latent(heap[id])
  /\ heap' = [heap EXCEPT ![id].obsm =
                Put(Put(@, X_LATENT_QZM, [n_rows |-> n_obs(heap[id]), data |-> "qzm"]),
                    X_LATENT_QZV, [n_rows |-> n_obs(heap[id]), data |-> "qzv"])]
  /\ raised' = NoError
  /\ last' = Call("store_latent", m, "", id, 0, heap[id])
  /\ UNCHANGED <<models, bdata, disk, next_uuid, managers>>

\* cell cd6c5291, line 5: model.minify_adata()
MinifyAdata(m) ==
  LET mdl == models[m]
      id  == mdl.adata
      out == minify(heap, id, next_uuid + 1)
  IN
  /\ mdl.cls # "None"
  /\ has_latent(heap[id])
  /\ IF ~supports_minification(mdl.cls)
     THEN /\ raised' = [type |-> UnsupportedOperation, msg |-> "minify_adata"]
          /\ last' = Call("minify_adata", m, "", id, 0, heap[id])
          /\ UNCHANGED <<heap, models, next_uuid, managers>>
     ELSE IF already_minified(heap[id])
     THEN /\ raised' = [type |-> AlreadyMinified, msg |-> ""]
          /\ last' = Call("minify_adata", m, "", id, 0, heap[id])
          /\ UNCHANGED <<heap, models, next_uuid, managers>>
     ELSE IF ~rows_agree(heap[id])
     THEN /\ raised' = [type |-> DimensionMismatch, msg |-> ""]
          /\ last' = Call("minify_adata", m, "", id, 0, heap[id])
          /\ UNCHANGED <<heap, models, next_uuid, managers>>
     ELSE /\ Len(heap) < MaxObjects
          /\ heap' = out.heap
          /\ next_uuid' = next_uuid + 1
          /\ models' = [models EXCEPT
                          ![m].adata = out.result,
                          ![m].minified_data_type = LATENT_POSTERIOR,
                          ![m].registry = SourceRegistry(mdl.cls, out.heap[out.result])]
          /\ managers' = register_manager(managers, out.result, "minify_adata", NoError)
          /\ raised' = NoError
          /\ last' = Call("minify_adata", m, "", id, out.result, heap[id])
  /\ UNCHANGED <<bdata, disk>>

\* what model.save(dir_path, save_anndata=True) writes: the registry of the
\* model's manager and the model's adata
MutSaveSetupRegistry(mdl, adata) ==
  [registry |-> [model_name |-> mdl.cls, field_registries |-> BaseFields],
   adata |-> adata]
_save(mdl, adata) == [registry |-> mdl.registry, adata |-> adata]

\* cells d63b70ae, 4a899e25: model.save(save_path, overwrite=True,
\* save_anndata=True)
Save(m, path) ==
  /\ m = "model"
  /\ path = "local/hca_minified"
  /\ disk' = Put(disk, path, _save(models[m], heap[models[m].adata]))
  /\ disk' # disk
  /\ raised' = NoError
  /\ last' = Call("save", m, path, models[m].adata, 0, heap[models[m].adata])
  /\ UNCHANGED <<heap, models, bdata, next_uuid, managers>>


\* AnnDataManager.register_fields / _add_field with a source registry: every
\* non-empty field reads
\* source_registry[_FIELD_REGISTRIES_KEY][field.registry_key][_STATE_REGISTRY_KEY]
MutRegisterAnything(fields, source_registry) == NoError
MutRegisterExact(fields, source_registry) ==
  IF fields = source_registry.field_registries
  THEN NoError
  ELSE [type |-> RegistryKeyError, msg |-> STATE_REGISTRY_KEY]
register_fields(fields, source_registry) ==
  IF fields \subseteq source_registry.field_registries
  THEN NoError
  ELSE [type |-> RegistryKeyError, msg |-> STATE_REGISTRY_KEY]

\* BaseModelClass.load up to _initialize_model: the exception it raises for
\* a saved registry and a dataset, if any
MutLoadNoGate(cls, source_registry, adata) ==
  register_fields(_get_fields(cls, adata), source_registry)
load_error(cls, source_registry, adata) ==
  IF _is_minified(adata) /\ ~supports_minification(cls)
  THEN [type |-> UnsupportedOperation, msg |-> UnsupportedMessage(cls)]
  ELSE register_fields(_get_fields(cls, adata), source_registry)

\* model.module.on_load(model): the minified data type the loaded model
\* reports is that of its dataset
MutOnLoadForgets(adata) == "None"
on_load(adata) == _get_adata_minify_type(adata)

\* the datasets the notebook holds a reference to
Refs == ({bdata} \cup {models[m].adata : m \in ModelVars}) \ {0}

\* cells 0ba49f7b, 4a899e25, c71e218c, c88064b6:
\* target = cls.load(dir_path, adata=arg); arg = 0 is adata=None, and the
\* saved adata is read from dir_path into a new object
Load(target, path, arg) ==
  /\ target = "loaded_model"
  /\ path \in DOMAIN disk
  /\ arg \in Refs \cup {0}
  /\ arg = 0 => Len(heap) < MaxObjects
  /\ LET saved == disk[path]
         cls   == saved.registry.model_name
         h1    == IF arg = 0 THEN Append(heap, saved.adata) ELSE heap
         id    == IF arg = 0 THEN Len(heap) + 1 ELSE arg
         err   == load_error(cls, saved.registry, h1[id])
     IN /\ managers' = register_manager(managers, id, "load", err)
        /\ IF err.type # "None"
           THEN /\ raised' = err
                /\ last' = Call("load", target, path, arg, 0, h1[id])
                /\ UNCHANGED <<heap, models>>
           ELSE /\ heap' = h1
                /\ models' = [models EXCEPT ![target] =
                                [cls |-> cls, adata |-> id,
                                 minified_data_type |-> on_load(h1[id]),
                                 registry |-> SourceRegistry(cls, h1[id])]]
                /\ raised' = NoError
                /\ last' = Call("load", target, path, arg, id, h1[id])
  /\ UNCHANGED <<bdata, disk, next_uuid>>

\* the minification kinds classify recognises
MinificationKinds == {LATENT_POSTERIOR}

\* classify: the kind under the reserved key, Unminified ("None") when the
\* key is absent, and UnknownMinificationKind for a kind it does not know
MutClassifyUnknownAsUnminified(adata) ==
  IF _get_adata_minify_type(adata) \in MinificationKinds
  THEN [kind |-> _get_adata_minify_type(adata), raised |-> NoError]
  ELSE [kind |-> "None", raised |-> NoError]
classify(adata) ==
  IF ADATA_MINIFY_TYPE_UNS_KEY \notin DOMAIN adata.uns
  THEN [kind |-> "None", raised |-> NoError]
  ELSE IF adata.uns[ADATA_MINIFY_TYPE_UNS_KEY] \in MinificationKinds
  THEN [kind |-> adata.uns[ADATA_MINIFY_TYPE_UNS_KEY], raised |-> NoError]
  ELSE [kind |-> "Error", raised |-> [type |-> UnknownMinificationKind,
                                      msg |-> adata.uns[ADATA_MINIFY_TYPE_UNS_KEY]]]

Bool(b) == IF b THEN "True" ELSE "False"

\* cells 42ade97a, 723726bc, 4a899e25:
\* scvi.data._utils._is_minified(model.adata)
IsMinified(m) ==
  LET id == models[m].adata IN
  /\ models[m].cls # "None"
  /\ raised' = NoError
  /\ last' = CallV("_is_minified", m, "", id, 0, heap[id], Bool(_is_minified(heap[id])))
  /\ UNCHANGED <<heap, models, bdata, disk, next_uuid, managers>>

\* cells 1b320565, 2bfe604b: the minification kind of the model's dataset
Classify(m) ==
  LET id == models[m].adata
      out == classify(heap[id])
  IN
  /\ models[m].cls # "None"
  /\ raised' = out.raised
  /\ last' = CallV("classify", m, "", id, 0, heap[id], out.kind)
  /\ UNCHANGED <<heap, models, bdata, disk, next_uuid, managers>>

Next ==
  \/ KeepReference
  \/ \E m \in ModelVars : StoreLatent(m)
  \/ \E m \in ModelVars : MinifyAdata(m)
  \/ \E m \in ModelVars, path \in Paths : Save(m, path)
  \/ \E target \in ModelVars, path \in Paths, arg \in 0..MaxObjects : Load(target, path, arg)

Spec == Init /\ [][Next]_vars

\* ------------------------------------------------- minify and classify on
\* arbitrary inputs: a dataset that carries statistics of any row count and,
\* possibly, the reserved key with a kind of a later version
FUTURE_KIND == "future_kind"

InputAdatas ==
  { [a EXCEPT
       !.uns  = IF kind = "None" THEN @ ELSE Put(@, ADATA_MINIFY_TYPE_UNS_KEY, kind),
       !.obsm = Put(Put(@, X_LATENT_QZM, [n_rows |-> rm, data |-> "qzm"]),
                    X_LATENT_QZV, [n_rows |-> rv, data |-> "qzv"])] :
      a \in InitAdatas, kind \in {"None", FUTURE_KIND},
      rm \in {MaxObs, MaxObs + 1}, rv \in {MaxObs, MaxObs + 1} }

InitInputs == \E a \in InputAdatas : InitWith(a)

NextInputs ==
  \/ \E m \in ModelVars : MinifyAdata(m)
  \/ \E m \in ModelVars : IsMinified(m)
  \/ \E m \in ModelVars : Classify(m)

SpecInputs == InitInputs /\ [][NextInputs]_vars

TypeOK ==
  /\ Len(heap) \in 1..MaxObjects
  /\ \A m \in ModelVars : models[m].adata \in 0..Len(heap)
  /\ bdata \in 0..Len(heap)

\* ------------------------------------------------------------- properties
\* the last call was a minify_adata that succeeded: last.pre is the dataset D
\* before the call, heap[last.arg] is D after it, heap[last.result] the result
MinifyOk == last.op = "minify_adata" /\ raised = NoError /\ last.result # 0

\* the class whose load was called last
LoadCls == disk[last.path].registry.model_name

\* C1: a successful minify returns an object that is not D and has the row
\* count and the column count of D
C1_DistinctSameShape ==
  MinifyOk =>
    /\ last.result # last.arg
    /\ n_obs(heap[last.result]) = n_obs(last.pre)
    /\ n_vars(heap[last.result]) = n_vars(last.pre)
    /\ n_obs(heap[last.result]) = n_obs(heap[last.arg])
    /\ n_vars(heap[last.result]) = n_vars(heap[last.arg])

C1_Witness ==
  /\ MinifyOk
  /\ nnz(last.pre.X) > 0
  /\ n_obs(last.pre) = MaxObs

\* C2: minification is not in place: after a successful minify D has the X,
\* the layers and the raw it had before, and has gained neither the marker
\* key, nor the internal latent matrices, nor the observed library size
C2_OriginalUnchanged ==
  MinifyOk =>
    /\ heap[last.arg].X = last.pre.X
    /\ heap[last.arg].layers = last.pre.layers
    /\ heap[last.arg].raw = last.pre.raw
    /\ ADATA_MINIFY_TYPE_UNS_KEY \notin DOMAIN heap[last.arg].uns
    /\ SCVI_LATENT_QZM \notin DOMAIN heap[last.arg].obsm
    /\ SCVI_LATENT_QZV \notin DOMAIN heap[last.arg].obsm
    /\ SCVI_OBSERVED_LIB_SIZE \notin DOMAIN heap[last.arg].obs

C2_Witness ==
  /\ MinifyOk
  /\ nnz(heap[last.arg].X) > 0
  /\ heap[last.arg].raw # NoRaw
  /\ bdata = last.arg

\* C3: after a successful minify the X and every layer of the result have
\* zero stored elements, whatever D had, and the result has the layers of D
C3_Emptied ==
  MinifyOk =>
    /\ nnz(heap[last.result].X) = 0
    /\ \A l \in DOMAIN heap[last.result].layers : nnz(heap[last.result].layers[l]) = 0
    /\ DOMAIN heap[last.result].layers = DOMAIN last.pre.layers

C3_Witness ==
  /\ MinifyOk
  /\ nnz(last.pre.X) = MaxObs * MaxVars
  /\ nnz(last.pre.layers["counts"]) > 0

\* C4: after a successful minify the result has no raw, whether or not D
\* had one
C4_NoRaw == MinifyOk => heap[last.result].raw = NoRaw

C4_Witness == MinifyOk /\ last.pre.raw # NoRaw

\* C5: the result of a successful minify classifies as
\* latent_posterior_parameters, and every dataset without the marker key
\* classifies as unminified
C5_Classify ==
  /\ MinifyOk => /\ _get_adata_minify_type(heap[last.result]) = LATENT_POSTERIOR
                 /\ _is_minified(heap[last.result])
  /\ \A id \in 1..Len(heap) :
       ADATA_MINIFY_TYPE_UNS_KEY \notin DOMAIN heap[id].uns =>
         /\ _get_adata_minify_type(heap[id]) = "None"
         /\ ~_is_minified(heap[id])

C5_Witness ==
  /\ MinifyOk
  /\ ADATA_MINIFY_TYPE_UNS_KEY \notin DOMAIN heap[last.arg].uns
  /\ ADATA_MINIFY_TYPE_UNS_KEY \in DOMAIN heap[last.result].uns

\* C6: minify_adata on a dataset that is tagged minified fails with
\* AlreadyMinified and makes no dataset, every time it is called
C6_AlreadyMinified ==
  [][\A m \in ModelVars :
       (MinifyAdata(m) /\ _is_minified(heap[models[m].adata])) =>
         /\ raised'.type = AlreadyMinified
         /\ last'.result = 0
         /\ heap' = heap
         /\ models' = models]_vars

C6_Witness ==
  /\ last.op = "minify_adata"
  /\ _is_minified(last.pre)
  /\ raised.type = AlreadyMinified

\* C7: loading a model whose class is not minification-aware with a dataset
\* tagged minified fails with UnsupportedOperation, and the message names
\* the class
C7_UnawareRejected ==
  (/\ last.op = "load"
   /\ LoadCls = "MyModel"
   /\ ADATA_MINIFY_TYPE_UNS_KEY \in DOMAIN last.pre.uns)
  => /\ raised.type = UnsupportedOperation
     /\ raised.msg = "The MyModel model currently does not support minified data."
     /\ last.result = 0

C7_Witness ==
  /\ last.op = "load"
  /\ last.path = "local/mymodel"
  /\ _is_minified(last.pre)
  /\ raised.type = UnsupportedOperation

\* C8: loading a minification-aware model whose saved registry has no entry
\* for the minification fields with a minified dataset fails with KeyError
\* 'state_registry'
C8_RegistryKeyError ==
  (/\ last.op = "load"
   /\ LoadCls \in BaseMinifiedModeModelClass
   /\ ADATA_MINIFY_TYPE_UNS_KEY \in DOMAIN last.pre.uns
   /\ ~(MinificationFields \subseteq disk[last.path].registry.field_registries))
  => /\ raised = [type |-> "KeyError", msg |-> "state_registry"]
     /\ last.result = 0

C8_Witness ==
  /\ last.op = "load"
  /\ last.path = "local/hca"
  /\ last.arg # 0
  /\ _is_minified(last.pre)
  /\ raised.type = RegistryKeyError

\* C9 as stated: loading the minified dataset with a model registered
\* without the minification fields raises UnsupportedOperation
C9_Original ==
  (/\ last.op = "load"
   /\ ADATA_MINIFY_TYPE_UNS_KEY \in DOMAIN last.pre.uns
   /\ ~(MinificationFields \subseteq disk[last.path].registry.field_registries))
  => raised.type = UnsupportedOperation

\* C9 amended: loading the minified dataset with a model registered without
\* the minification fields raises KeyError 'state_registry' when the model
\* class is minification-aware (the notebook's SCVI saved in local/hca), and
\* UnsupportedOperation naming the class only when it is not
C9_RegisteredWithoutMinification ==
  (/\ last.op = "load"
   /\ ADATA_MINIFY_TYPE_UNS_KEY \in DOMAIN last.pre.uns
   /\ ~(MinificationFields \subseteq disk[last.path].registry.field_registries))
  => /\ last.result = 0
     /\ IF LoadCls \in BaseMinifiedModeModelClass
        THEN raised.type = "KeyError" /\ raised.msg = "state_registry"
        ELSE /\ raised.type = UnsupportedOperation
             /\ raised.msg = "The " \o LoadCls \o " model currently does not support minified data."

C9_Witness ==
  /\ last.op = "load"
  /\ LoadCls = "SCVI"
  /\ last.arg = models["model"].adata
  /\ _is_minified(last.pre)
  /\ ~(MinificationFields \subseteq disk[last.path].registry.field_registries)
  /\ raised.type # "None"

\* C10: loading a minification-aware model with an unminified dataset
\* succeeds and the loaded model's dataset is that dataset, not minified,
\* also when the model was saved with a minified dataset
C10_LoadUnminified ==
  (/\ last.op = "load"
   /\ last.arg # 0
   /\ LoadCls \in BaseMinifiedModeModelClass
   /\ ADATA_MINIFY_TYPE_UNS_KEY \notin DOMAIN last.pre.uns)
  => /\ raised = NoError
     /\ models[last.m].adata = last.arg
     /\ ~_is_minified(heap[models[last.m].adata])
     /\ models[last.m].minified_data_type = "None"

C10_Witness ==
  /\ last.op = "load"
  /\ last.path = "local/hca_minified"
  /\ _is_minified(disk[last.path].adata)
  /\ last.arg = bdata
  /\ ~_is_minified(last.pre)
  /\ raised = NoError
  /\ models["model"].minified_data_type = LATENT_POSTERIOR

C12_UnknownKindRejected ==
  (/\ last.op = "classify"
   /\ ADATA_MINIFY_TYPE_UNS_KEY \in DOMAIN last.pre.uns
   /\ last.pre.uns[ADATA_MINIFY_TYPE_UNS_KEY] # "latent_posterior_parameters")
  => /\ raised.type = UnknownMinificationKind
     /\ last.value # "None"

C12_Witness ==
  /\ last.op = "classify"
  /\ ADATA_MINIFY_TYPE_UNS_KEY \in DOMAIN last.pre.uns
  /\ last.pre.uns[ADATA_MINIFY_TYPE_UNS_KEY] = FUTURE_KIND
  /\ raised.type = UnknownMinificationKind

C14_CapabilityGate ==
  [][\A m \in ModelVars :
       MinifyAdata(m) =>
         IF models[m].cls \in BaseMinifiedModeModelClass
         THEN raised'.type # UnsupportedOperation
         ELSE /\ raised'.type = UnsupportedOperation
              /\ last'.result = 0
              /\ heap' = heap
              /\ models' = models]_vars

C14_Witness ==
  /\ last.op = "minify_adata"
  /\ models[last.m].cls = "MyModel"
  /\ raised.type = UnsupportedOperation
  /\ \E id \in 1..Len(heap) : _is_minified(heap[id])

\* C15: the minified data type a model reports is the kind of its dataset,
\* and after a successful minify_adata the model's dataset is the result and
\* the model reports latent_posterior_parameters
C15_ReportedKind ==
  /\ \A m \in ModelVars :
       models[m].cls # "None" =>
         models[m].minified_data_type = _get_adata_minify_type(heap[models[m].adata])
  /\ MinifyOk => /\ models[last.m].adata = last.result
                 /\ models[last.m].minified_data_type = "latent_posterior_parameters"

C15_Witness ==
  /\ last.op = "load"
  /\ last.arg = 0
  /\ raised = NoError
  /\ models["loaded_model"].minified_data_type = LATENT_POSTERIOR
  /\ models["model"].minified_data_type = LATENT_POSTERIOR

\* C16: the result of a successful minify holds the latent mean and variance
\* under X_latent_qzm and X_latent_qzv and under _scvi_latent_qzm and
\* _scvi_latent_qzv, the library size of every row in
\* obs["_scvi_observed_lib_size"], and the kind in
\* uns["_scvi_adata_minify_type"]
C16_ReservedEntries ==
  MinifyOk =>
    LET r == heap[last.result] IN
    /\ r.obsm["X_latent_qzm"] = last.pre.obsm["X_latent_qzm"]
    /\ r.obsm["X_latent_qzv"] = last.pre.obsm["X_latent_qzv"]
    /\ r.obsm["_scvi_latent_qzm"] = last.pre.obsm["X_latent_qzm"]
    /\ r.obsm["_scvi_latent_qzv"] = last.pre.obsm["X_latent_qzv"]
    /\ "_scvi_observed_lib_size" \in DOMAIN r.obs
    /\ Len(r.obs["_scvi_observed_lib_size"]) = n_obs(last.pre)
    /\ r.obs["_scvi_observed_lib_size"] = last.pre.layers["counts"].rows
    /\ r.uns["_scvi_adata_minify_type"] = "latent_posterior_parameters"

C16_Witness ==
  /\ MinifyOk
  /\ last.pre.layers["counts"].rows[1] # last.pre.layers["counts"].rows[MaxObs]
  /\ heap[last.result].obsm[SCVI_LATENT_QZM] # heap[last.result].obsm[SCVI_LATENT_QZV]

\* C17: for a dataset that classify classifies, _is_minified is true exactly
\* when classify does not return Unminified, and neither query changes the
\* dataset or the model's reference to it
C17_QueriesPure ==
  /\ (last.op = "_is_minified" /\ classify(last.pre).raised = NoError) =>
       last.value = Bool(classify(last.pre).kind # "None")
  /\ last.op \in {"_is_minified", "classify"} =>
       /\ heap[last.arg] = last.pre
       /\ models[last.m].adata = last.ref
       /\ last.result = 0

C17_Witness ==
  /\ last.op = "_is_minified"
  /\ last.value = "True"
  /\ nnz(heap[last.arg].X) = 0
  /\ last.arg = 2

C19_SaveLoadMinified ==
  (/\ last.op = "load"
   /\ last.arg = 0
   /\ ADATA_MINIFY_TYPE_UNS_KEY \in DOMAIN disk[last.path].adata.uns)
  => /\ raised = NoError
     /\ last.result # 0
     /\ models[last.m].adata = last.result
     /\ heap[last.result] = disk[last.path].adata
     /\ _get_adata_minify_type(heap[last.result]) = "latent_posterior_parameters"
     /\ models[last.m].minified_data_type = "latent_posterior_parameters"

C19_Witness ==
  /\ last.op = "load"
  /\ last.arg = 0
  /\ last.path = "local/hca_minified"
  /\ _is_minified(disk[last.path].adata)
  /\ raised = NoError
  /\ last.result # models["model"].adata

\* C20: a model's dataset that is tagged minified has _scvi_latent_qzm,
\* _scvi_latent_qzv and _scvi_observed_lib_size, no stored element in X or in
\* any layer, and no raw
C20_MinifiedWellFormed ==
  \A m \in ModelVars :
    (models[m].cls # "None"
     /\ ADATA_MINIFY_TYPE_UNS_KEY \in DOMAIN heap[models[m].adata].uns)
    => LET a == heap[models[m].adata] IN
       /\ "_scvi_latent_qzm" \in DOMAIN a.obsm
       /\ "_scvi_latent_qzv" \in DOMAIN a.obsm
       /\ "_scvi_observed_lib_size" \in DOMAIN a.obs
       /\ nnz(a.X) = 0
       /\ \A l \in DOMAIN a.layers : nnz(a.layers[l]) = 0
       /\ a.raw = NoRaw

C20_Witness ==
  /\ \A m \in ModelVars :
       models[m].cls # "None" /\ _is_minified(heap[models[m].adata])
  /\ models["model"].adata # models["loaded_model"].adata
  /\ nnz(heap[1].X) > 0
  /\ heap[1].raw # NoRaw
====
